---------------------------- MODULE Spec2Model ----------------------------
(***************************************************************************)
(* The asynchronous job progress / idempotency protocol of the sales       *)
(* role-play backend: the reference-check endpoint, the audio-analysis     *)
(* API with its Step Functions stage handlers, and the throttling retry    *)
(* loop of the speaker-role agent.                                         *)
(*                                                                         *)
(* One partition (one sessionId) of the session feedback table is          *)
(* modelled: every query of the code carries the key condition             *)
(* sessionId = <the session>, so partitions do not interact.  An item is   *)
(* keyed by (sessionId, createdAt); createdAt is the wall clock at the     *)
(* time of the write and every write takes one clock unit (one second),    *)
(* so two writes of the modelled handlers never share a key.               *)
(***************************************************************************)
EXTENDS Integers, Sequences, FiniteSets, TLC

(***************************************************************************)
(* Bounds of the model.                                                    *)
(***************************************************************************)
MaxTicks == 1

(***************************************************************************)
(* Program constants.                                                      *)
(***************************************************************************)
REF_STALE_SECONDS == 600
AUDIO_STALE_SECONDS == 10800

RefProcs == {"r1", "r2"}
ApiProcs == {"a1", "a2"}
Execs == {"e1", "e2"}
ProcOrder == [r1 |-> 1, r2 |-> 2, a1 |-> 1, a2 |-> 2, e1 |-> 1, e2 |-> 2]

None == "None"

VARIABLES
    workload,   \* which family of handlers serves the session in this run
    table,      \* the session's partition of SESSION_FEEDBACK_TABLE
    now,        \* wall clock, seconds
    ticks,      \* number of clock jumps taken
    ref,        \* per reference-check invocation: position and locals
    api,        \* per start_audio_analysis invocation: position and locals
    exec,       \* per Step Functions execution: stage, payload and locals
    retry,      \* the call of _identify_speaker_roles_with_agent
    faults,     \* whether the services the handlers call may fail in this run
    concurrency, \* how many invocations of a handler the run admits
    poll        \* the client's request for the status or the results

vars == <<workload, table, now, ticks, ref, api, exec, retry, faults,
          concurrency, poll>>
refVars == <<ref>>
audioVars == <<api, exec>>
envVars == <<workload, faults, concurrency>>
otherVars == <<envVars, retry, poll>>

(***************************************************************************)
(* Items of the table.  All items share one shape; a field an item does    *)
(* not carry holds None (NoData for referenceCheckData).  Fields no        *)
(* handler reads back (expireAt, timestamp, language, audioKey) are left   *)
(* out.  createdAt is the sort key, a string in the table: the model      *)
(* keeps its place in the order as a number of seconds and, in            *)
(* createdAtText, whether the string is the ISO timestamp the handlers    *)
(* write ("iso"), some other text ("garbled") or empty ("").              *)
(***************************************************************************)
NoData == [messages |-> <<>>, totalMessages |-> -1]

Item(createdAt, dataType) ==
    [createdAt |-> createdAt, createdAtText |-> "iso",
     dataType |-> dataType, status |-> None,
     currentStep |-> None, userId |-> None, referenceCheckData |-> NoData,
     audioAnalysisData |-> None, error |-> None, step |-> None]

(***************************************************************************)
(* DynamoDB operations on the partition.                                   *)
(***************************************************************************)
RECURSIVE SortDesc(_)
SortDesc(S) ==
    IF S = {} THEN <<>>
    ELSE LET m == CHOOSE r \in S : \A q \in S : q.createdAt <= r.createdAt
         IN  <<m>> \o SortDesc(S \ {m})

RECURSIVE SortAsc(_)
SortAsc(S) ==
    IF S = {} THEN <<>>
    ELSE LET m == CHOOSE r \in S : \A q \in S : q.createdAt >= r.createdAt
         IN  SortAsc(S \ {m}) \o <<m>>

\* query(KeyCondition sessionId, FilterExpression dataType = dt,
\*       ScanIndexForward = False)
QueryDesc(t, dt) == SortDesc({r \in t : r.dataType = dt})

\* query(KeyCondition sessionId, FilterExpression dataType = dt)
QueryAsc(t, dt) == SortAsc({r \in t : r.dataType = dt})

\* put_item: an item with the same key is overwritten
put_item(t, item) == {r \in t : r.createdAt # item.createdAt} \cup {item}

\* delete_item(Key = {sessionId, createdAt})
delete_item(t, createdAt) == {r \in t : r.createdAt # createdAt}

\* whether a call to a service succeeds: any call may fail in a run with
\* faults
Answers == IF faults THEN BOOLEAN ELSE {TRUE}

(***************************************************************************)
(* Reference check: GET /referenceCheck/<sessionId>                        *)
(***************************************************************************)
\* the keys and the error text of the JSON body sent with a status code:
\* the handler's own Response for 409, lambda_handler's except clause for
\* 500, the gateway's answer for an invocation that timed out
BodyKeys(statusCode, okKeys) ==
    IF statusCode = 200 THEN okKeys
    ELSE IF statusCode = 409 THEN {"error", "message", "sessionId"}
    ELSE IF statusCode = 500 THEN {"error"}
    ELSE {"message"}

RefBodyError(statusCode) ==
    IF statusCode = 409 THEN "Reference check is already in progress"
    ELSE IF statusCode = 500 THEN "Internal server error"
    ELSE None

RefIdle ==
    [pc |-> "idle", items |-> <<>>, after |-> None, msgs |-> <<>>,
     total |-> 0, results |-> <<>>,
     response |-> [statusCode |-> 0, body |-> NoData, keys |-> {},
                   error |-> None],
     \* history of the invocation, read by the properties only: what the
     \* guard met and decided, whether a side-channel operation failed, the
     \* exception the work raised
     sawClean |-> FALSE, ageSeen |-> -1, decision |-> None,
     side |-> FALSE, raised |-> None,
     \* the createdAt of the flag the invocation has put, while it runs
     wrote |-> -1]

\* the invocation returns: its locals are gone, its response is kept
RefReturn(r, statusCode, body) ==
    [RefIdle EXCEPT !.pc = "done", !.ageSeen = r.ageSeen,
                    !.decision = r.decision, !.side = r.side,
                    !.raised = r.raised,
                    !.response =
                        [statusCode |-> statusCode, body |-> body,
                         keys |-> BodyKeys(statusCode, {"messages", "summary"}),
                         error |-> RefBodyError(statusCode)]]

\* the pcs at which an invocation is past the guard and doing the work
RefWorking == {"set_flag", "get_scenario", "get_messages", "agent", "save"}

\* the query with the dataType of another kind of item
get_existing_reference_check_other_type(t) ==
    LET items == QueryDesc(t, "audio-analysis-result")
    IN  IF items # <<>> THEN items[1].referenceCheckData ELSE NoData

get_existing_reference_check(t) ==
    LET items == QueryDesc(t, "reference-check")
    IN  IF items # <<>> THEN items[1].referenceCheckData ELSE NoData

\* created_at is there and datetime.fromisoformat(created_at) returns
Parses(item) == item.createdAtText = "iso"

\* the age the staleness check computes for the newest in-progress item
RefFlagAge(t, clock) ==
    LET items == QueryDesc(t, "reference-check-in-progress")
    IN  IF items # <<>> /\ Parses(items[1])
        THEN clock - items[1].createdAt ELSE -1

\* the newest in-progress item has no createdAt or one that does not parse
RefFlagUnparsed(t) ==
    LET items == QueryDesc(t, "reference-check-in-progress")
    IN  items # <<>> /\ ~Parses(items[1])

\* the comparison with >= in place of >
RefIsStale_inclusive(age) == age >= REF_STALE_SECONDS

RefIsStale(age) == age > REF_STALE_SECONDS

RefFlagItem(clock) ==
    [Item(clock, "reference-check-in-progress") EXCEPT !.status = "processing"]

RefResultItem(clock, result) ==
    [Item(clock, "reference-check") EXCEPT !.referenceCheckData = result]

Clean(t) ==
    /\ QueryDesc(t, "reference-check") = <<>>
    /\ QueryDesc(t, "reference-check-in-progress") = <<>>

\* API Gateway delivers a request: a new invocation of get_reference_check,
\* which runs in the first free execution environment
RefFree(p) == ref[p].pc = "idle"

RefInvoke(p) ==
    /\ workload = "reference-check"
    /\ RefFree(p)
    /\ ProcOrder[p] <= concurrency
    /\ \A q \in RefProcs : RefFree(q) => ProcOrder[p] <= ProcOrder[q]
    /\ ref' = [ref EXCEPT ![p] =
                 [RefIdle EXCEPT !.pc = "check_result",
                                 !.sawClean = Clean(table)]]
    /\ UNCHANGED <<audioVars, otherVars, table, now, ticks>>

\* existing_result = get_existing_reference_check(sessionId)
RefCheckExisting(p) ==
    /\ ref[p].pc = "check_result"
    /\ \E ok \in Answers :
          LET existing_result == IF ok THEN get_existing_reference_check(table)
                                 ELSE NoData
          IN  ref' = [ref EXCEPT ![p] =
                IF existing_result # NoData
                THEN RefReturn([@ EXCEPT !.decision = "ALREADY_DONE"],
                               200, existing_result)
                ELSE [@ EXCEPT !.pc = "check_progress"]]
    /\ UNCHANGED <<audioVars, otherVars, table, now, ticks>>

\* is_reference_check_in_progress(sessionId): the query and the comparison
RefCheckProgress(p) ==
    /\ ref[p].pc = "check_progress"
    /\ \E ok \in Answers :
          LET age == IF ok THEN RefFlagAge(table, now) ELSE -1
          IN  ref' = [ref EXCEPT ![p] =
                IF ok /\ RefFlagUnparsed(table)
                THEN RefReturn([@ EXCEPT !.decision = "ALREADY_IN_PROGRESS"],
                               409, NoData)
                ELSE IF age = -1
                THEN [@ EXCEPT !.pc = "set_flag", !.decision = "PROCEED"]
                ELSE IF RefIsStale(age)
                THEN [@ EXCEPT !.pc = "del_query", !.after = "reclaim",
                               !.ageSeen = age, !.decision = "PROCEED"]
                ELSE RefReturn([@ EXCEPT !.ageSeen = age,
                                         !.decision = "ALREADY_IN_PROGRESS"],
                               409, NoData)]
    /\ UNCHANGED <<audioVars, otherVars, table, now, ticks>>

\* where an invocation goes once delete_reference_check_progress_flag is over
RefAfterDelete(r) ==
    IF r.after = "reclaim"
    THEN [r EXCEPT !.pc = "set_flag", !.items = <<>>, !.after = None]
    ELSE IF r.after = "finish"
    THEN RefReturn(r, 200, [messages |-> r.results, totalMessages |-> r.total])
    ELSE RefReturn(r, 500, NoData)

\* delete_reference_check_progress_flag: the query
RefDeleteQuery(p) ==
    /\ ref[p].pc = "del_query"
    /\ \E ok \in Answers :
          LET items == QueryAsc(table, "reference-check-in-progress")
          IN  ref' = [ref EXCEPT ![p] =
                IF ~ok THEN RefAfterDelete([@ EXCEPT !.side = TRUE])
                ELSE IF items = <<>> THEN RefAfterDelete(@)
                ELSE [@ EXCEPT !.pc = "del_items", !.items = items]]
    /\ UNCHANGED <<audioVars, otherVars, table, now, ticks>>

\* delete_reference_check_progress_flag: one delete_item of the loop
RefDeleteItem(p) ==
    /\ ref[p].pc = "del_items"
    /\ \E ok \in Answers :
          IF ok
          THEN /\ table' = delete_item(table, Head(ref[p].items).createdAt)
               /\ ref' = [ref EXCEPT ![p] =
                      LET r == [@ EXCEPT !.items = Tail(@)]
                      IN  IF r.items = <<>> THEN RefAfterDelete(r) ELSE r]
          ELSE /\ table' = table
               /\ ref' = [ref EXCEPT ![p] =
                      RefAfterDelete([@ EXCEPT !.side = TRUE])]
    /\ UNCHANGED <<audioVars, otherVars, now, ticks>>

\* set_reference_check_progress_flag(sessionId)
RefSetFlag(p) ==
    /\ ref[p].pc = "set_flag"
    /\ \E ok \in Answers :
          IF ok
          THEN /\ table' = put_item(table, RefFlagItem(now))
               /\ ref' = [ref EXCEPT ![p] = [@ EXCEPT !.pc = "get_scenario",
                                                      !.wrote = now]]
          ELSE /\ table' = table
               /\ ref' = [ref EXCEPT ![p] = [@ EXCEPT !.pc = "get_scenario",
                                                      !.side = TRUE]]
    /\ now' = now + 1
    /\ UNCHANGED <<audioVars, otherVars, ticks>>

\* scenario_id = get_scenario_id(sessionId): the session has a final-feedback
\* or an audio-analysis-result item, or ResourceNotFoundError is raised
get_scenario_id(t) ==
    QueryDesc(t, "final-feedback") # <<>>
        \/ QueryDesc(t, "audio-analysis-result") # <<>>

RefGetScenario(p) ==
    /\ ref[p].pc = "get_scenario"
    /\ \E ok \in Answers :
          ref' = [ref EXCEPT ![p] =
                IF ~ok
                THEN [@ EXCEPT !.pc = "del_query", !.after = "error",
                               !.raised = "Exception"]
                ELSE IF get_scenario_id(table)
                THEN [@ EXCEPT !.pc = "get_messages"]
                ELSE [@ EXCEPT !.pc = "del_query", !.after = "error",
                               !.raised = "ResourceNotFoundError"]]
    /\ UNCHANGED <<audioVars, otherVars, table, now, ticks>>

\* The user messages of a session, as get_user_messages returns them: each
\* has content, which is text or only white space.
UserMessageLists == {<<>>, <<"text">>, <<"blank">>, <<"blank", "text">>}

\* all_messages = get_messages(...); user_messages = get_user_messages(...)
RefGetMessages(p) ==
    /\ ref[p].pc = "get_messages"
    /\ \E found \in BOOLEAN, user_messages \in UserMessageLists :
          ref' = [ref EXCEPT ![p] =
                IF ~found
                THEN [@ EXCEPT !.pc = "del_query", !.after = "error",
                               !.raised = "ResourceNotFoundError"]
                ELSE IF user_messages = <<>>
                THEN [@ EXCEPT !.pc = "save_empty"]
                ELSE [@ EXCEPT !.pc = "agent", !.msgs = user_messages,
                               !.total = Len(user_messages)]]
    /\ UNCHANGED <<audioVars, otherVars, table, now, ticks>>

\* the branch "if not user_messages": the empty result is saved and returned
RefSaveEmpty(p) ==
    /\ ref[p].pc = "save_empty"
    /\ \E ok \in Answers :
          LET empty_result == [messages |-> <<>>, totalMessages |-> 0]
          IN  /\ table' = IF ok
                          THEN put_item(table, RefResultItem(now, empty_result))
                          ELSE table
              /\ ref' = [ref EXCEPT ![p] =
                     RefReturn([@ EXCEPT !.side = @ \/ ~ok], 200,
                               empty_result)]
    /\ now' = now + 1
    /\ UNCHANGED <<audioVars, otherVars, ticks>>

\* one iteration of the loop over user_messages: a blank message is skipped,
\* any other is given to call_agent, whose exception becomes a default entry
RefCallAgent(p) ==
    /\ ref[p].pc = "agent"
    /\ \E ok \in BOOLEAN :
          ref' = [ref EXCEPT ![p] =
                LET r == IF Head(@.msgs) = "blank"
                         THEN [@ EXCEPT !.msgs = Tail(@)]
                         ELSE [@ EXCEPT !.msgs = Tail(@),
                                        !.results = Append(@,
                                            IF ok THEN "checked" ELSE "error")]
                IN  IF r.msgs = <<>> THEN [r EXCEPT !.pc = "save"] ELSE r]
    /\ UNCHANGED <<audioVars, otherVars, table, now, ticks>>

\* save_reference_check_result(sessionId, aggregated_result)
RefSave(p) ==
    /\ ref[p].pc = "save"
    /\ \E ok \in Answers :
          LET aggregated_result == [messages |-> ref[p].results,
                                    totalMessages |-> ref[p].total]
          IN  /\ table' = IF ok
                          THEN put_item(table,
                                        RefResultItem(now, aggregated_result))
                          ELSE table
              /\ ref' = [ref EXCEPT ![p] =
                     [@ EXCEPT !.pc = "del_query", !.after = "finish",
                               !.side = @ \/ ~ok]]
    /\ now' = now + 1
    /\ UNCHANGED <<audioVars, otherVars, ticks>>

\* The Lambda runtime ends an invocation that waits for the agent (a
\* timeout, a crash): nothing more is written and its flag stays behind.
RefTimeout(p) ==
    /\ ref[p].pc = "agent"
    /\ ref' = [ref EXCEPT ![p] = RefReturn(@, 504, NoData)]
    /\ UNCHANGED <<audioVars, otherVars, table, now, ticks>>

(***************************************************************************)
(* Payloads of the audio pipeline: dictionaries from keys to values.       *)
(***************************************************************************)
\* {**f, **g}
Merge(f, g) ==
    [k \in DOMAIN f \cup DOMAIN g |-> IF k \in DOMAIN g THEN g[k] ELSE f[k]]

\* event.get(k)
Get(event, k) == IF k \in DOMAIN event THEN event[k] ELSE None

\* a validation that asks only whether the keys are there
AllPresent_key_only(event, ks) == ks \subseteq DOMAIN event

\* all([...]) over event.get(k) for the keys ks
AllPresent(event, ks) == \A k \in ks : Get(event, k) \notin {None, ""}

(***************************************************************************)
(* Audio analysis API: POST /audio-analysis/<session_id>/analyze           *)
(***************************************************************************)
ApiIdle ==
    [pc |-> "idle", body |-> [language |-> "ja"],
     response |-> [statusCode |-> 0, status |-> None, keys |-> {},
                   error |-> None],
     \* history of the invocation, read by the properties only: what the
     \* guard met and decided, the exception the handler raised
     sawClean |-> FALSE, ageSeen |-> -1, decision |-> None, raised |-> None]

ExecIdle ==
    [pc |-> "idle", stage |-> None, event |-> [sessionId |-> None],
     out |-> [sessionId |-> None],
     upd |-> [step |-> None, error |-> None, failed |-> None],
     then |-> None, found |-> {}, items |-> <<>>,
     \* history of the handler invocation, read by the properties only: the
     \* services it called (S3, Transcribe, the scenarios table, the agent)
     \* and whether a side-channel operation failed
     called |-> {}, side |-> FALSE]

ApiBodyError(statusCode) ==
    IF statusCode = 409 THEN "Analysis is already in progress"
    ELSE IF statusCode = 500 THEN "Internal server error"
    ELSE None

\* the keys of the dictionary start_audio_analysis returns with a status
StartedKeys(status) ==
    IF status = "COMPLETED" THEN {"success", "sessionId", "status", "message"}
    ELSE {"success", "sessionId", "executionArn", "status"}

ApiReturn(a, statusCode, status) ==
    [ApiIdle EXCEPT !.pc = "done", !.ageSeen = a.ageSeen,
                    !.decision = a.decision, !.raised = a.raised,
                    !.response =
                        [statusCode |-> statusCode, status |-> status,
                         keys |-> BodyKeys(statusCode, StartedKeys(status)),
                         error |-> ApiBodyError(statusCode)]]

\* the request bodies a client sends
RequestBodies ==
    {[audioKey |-> "audio.mp3", scenarioId |-> "scenario1", language |-> "ja"],
     [scenarioId |-> "scenario1", language |-> "ja"]}

get_existing_analysis_result(t) == QueryDesc(t, "audio-analysis-result")

AudioIsStale(age) == age > AUDIO_STALE_SECONDS

\* the age the staleness check computes for the newest in-progress item
AudioFlagAge(t, clock) ==
    LET items == QueryDesc(t, "audio-analysis-in-progress")
    IN  IF items # <<>> /\ Parses(items[1])
        THEN clock - items[1].createdAt ELSE -1

\* a parse error handled like the error of the query: nothing is in progress
get_analysis_progress_parse_error_none(t, clock) ==
    LET items == QueryDesc(t, "audio-analysis-in-progress")
    IN  IF items = <<>> THEN {}
        ELSE IF ~Parses(items[1]) THEN {}
        ELSE IF AudioIsStale(clock - items[1].createdAt) THEN {}
        ELSE {items[1]}

\* get_analysis_progress: the newest in-progress item unless it is stale;
\* an item whose createdAt is missing or does not parse is returned
get_analysis_progress(t, clock) ==
    LET items == QueryDesc(t, "audio-analysis-in-progress")
    IN  IF items = <<>> THEN {}
        ELSE IF ~Parses(items[1]) THEN {items[1]}
        ELSE IF AudioIsStale(clock - items[1].createdAt) THEN {}
        ELSE {items[1]}

is_analysis_in_progress(t, clock) == get_analysis_progress(t, clock) # {}

AudioClean(t) ==
    /\ QueryDesc(t, "audio-analysis-result") = <<>>
    /\ QueryDesc(t, "audio-analysis-in-progress") = <<>>

ApiInvoke(a) ==
    /\ workload = "audio-analysis"
    /\ api[a].pc = "idle"
    /\ ProcOrder[a] <= concurrency
    /\ \A b \in ApiProcs : api[b].pc = "idle" => ProcOrder[a] <= ProcOrder[b]
    /\ \E body \in RequestBodies :
          api' = [api EXCEPT ![a] =
                    [ApiIdle EXCEPT !.pc = "check_result", !.body = body,
                                    !.sawClean = AudioClean(table)]]
    /\ UNCHANGED <<refVars, otherVars, table, now, ticks, exec>>

\* existing_result = get_existing_analysis_result(session_id)
ApiCheckExisting(a) ==
    /\ api[a].pc = "check_result"
    /\ \E ok \in Answers :
          api' = [api EXCEPT ![a] =
                IF ok /\ get_existing_analysis_result(table) # <<>>
                THEN ApiReturn([@ EXCEPT !.decision = "ALREADY_DONE"],
                               200, "COMPLETED")
                ELSE [@ EXCEPT !.pc = "check_progress"]]
    /\ UNCHANGED <<refVars, otherVars, table, now, ticks, exec>>

\* if is_analysis_in_progress(session_id): 409
ApiCheckProgress(a) ==
    /\ api[a].pc = "check_progress"
    /\ \E ok \in Answers :
          api' = [api EXCEPT ![a] =
                LET r == IF ok
                         THEN [@ EXCEPT !.ageSeen = AudioFlagAge(table, now)]
                         ELSE @
                IN  IF ok /\ is_analysis_in_progress(table, now)
                    THEN ApiReturn([r EXCEPT !.decision =
                                                "ALREADY_IN_PROGRESS"],
                                   409, None)
                    ELSE [r EXCEPT !.pc = "start_execution",
                                   !.decision = "PROCEED"]]
    /\ UNCHANGED <<refVars, otherVars, table, now, ticks, exec>>

\* the Step Functions input start_audio_analysis builds
step_functions_input(body) ==
    [sessionId |-> "session1", audioKey |-> body.audioKey,
     scenarioId |-> body.scenarioId, language |-> body.language,
     userId |-> "user1"]

\* the request validation and stepfunctions_client.start_execution
ApiStartExecution(a) ==
    /\ api[a].pc = "start_execution"
    /\ IF ~AllPresent(api[a].body, {"audioKey", "scenarioId"})
       THEN /\ api' = [api EXCEPT ![a] =
                         ApiReturn([@ EXCEPT !.raised = "BadRequestError"],
                                   500, None)]
            /\ exec' = exec
       ELSE \E started \in BOOLEAN, e \in Execs :
              /\ exec[e].pc = "idle"
              /\ \A f \in Execs :
                    exec[f].pc = "idle" => ProcOrder[e] <= ProcOrder[f]
              /\ IF started
                 THEN /\ api' = [api EXCEPT ![a] = ApiReturn(@, 200, "STARTED")]
                      /\ exec' = [exec EXCEPT ![e] =
                            [ExecIdle EXCEPT !.pc = "start", !.stage = "start",
                                !.event = step_functions_input(api[a].body)]]
                 ELSE /\ api' = [api EXCEPT ![a] =
                            ApiReturn([@ EXCEPT !.raised =
                                          "InternalServerError"], 500, None)]
                      /\ exec' = exec
    /\ UNCHANGED <<refVars, otherVars, table, now, ticks>>

ApiNext ==
    \E a \in ApiProcs :
        \/ ApiInvoke(a)
        \/ ApiCheckExisting(a)
        \/ ApiCheckProgress(a)
        \/ ApiStartExecution(a)

(***************************************************************************)
(* The Step Functions execution: start -> transcribe -> check (repeated    *)
(* while the Transcribe job runs) -> process -> save.  A stage that        *)
(* reports a failure ends the execution.                                   *)
(***************************************************************************)
Route(stage, out) ==
    IF Get(out, "success") = "false" THEN "failed"
    ELSE IF stage = "start" THEN "transcribe"
    ELSE IF stage = "transcribe" THEN "check"
    ELSE IF stage = "check"
    THEN IF Get(out, "jobStatus") = "COMPLETED" THEN "process"
         ELSE IF Get(out, "jobStatus") = "FAILED" THEN "failed"
         ELSE "check"
    ELSE IF stage = "process" THEN "save"
    ELSE "succeeded"

\* the handler of r's stage returns out to the state machine
ExecReturn(r, out) ==
    [ExecIdle EXCEPT !.pc = "returned", !.stage = r.stage,
                     !.event = r.event, !.out = out,
                     !.called = r.called, !.side = r.side]

\* the state machine takes the output of a stage: it is the input of the
\* next stage, or the execution ends
StateMachineStep(e) ==
    /\ exec[e].pc = "returned"
    /\ exec' = [exec EXCEPT ![e] =
                LET next == Route(@.stage, @.out)
                IN  IF next \in {"succeeded", "failed"}
                    THEN [ExecIdle EXCEPT !.pc = next]
                    ELSE [ExecIdle EXCEPT !.pc = next, !.stage = next,
                                          !.event = exec[e].out]]
    /\ UNCHANGED <<refVars, otherVars, table, now, ticks, api>>

\* update_analysis_progress(session_id, step, additional_data) is called;
\* the copies in check_handler and process_handler return at once when
\* session_id is empty, the one in transcribe_handler fails in its query
ExecCallUpdate(r, upd, out, then) ==
    IF Get(r.event, "sessionId") \in {None, ""}
    THEN IF then = "return" THEN ExecReturn(r, out)
         ELSE [r EXCEPT !.pc = then, !.out = out]
    ELSE [r EXCEPT !.pc = "upd_query", !.upd = upd, !.out = out,
                   !.then = then]

\* update_analysis_progress without its try/except: the exception of the
\* query or the put reaches the except clause of the handler
ExecAfterUpdate_raises(r) ==
    IF r.side
    THEN ExecReturn(r, Merge(r.event, [success |-> "false",
                                       error |-> "error",
                                       errorType |-> "ProgressUpdateError"]))
    ELSE IF r.then = "return" THEN ExecReturn(r, r.out)
    ELSE [r EXCEPT !.pc = r.then, !.found = {},
                   !.upd = ExecIdle.upd, !.then = None]

ExecAfterUpdate(r) ==
    IF r.then = "return" THEN ExecReturn(r, r.out)
    ELSE [r EXCEPT !.pc = r.then, !.found = {},
                   !.upd = ExecIdle.upd, !.then = None]

Update(step, error, failed) ==
    [step |-> step, error |-> error, failed |-> failed]

\* query(..., FilterExpression dataType = dt, ScanIndexForward = False,
\*       Limit = 1): DynamoDB reads one item, the newest of the partition,
\* and applies the filter to it
QueryLimit1(t, dt) ==
    LET items == SortDesc(t)
    IN  IF items # <<>> /\ items[1].dataType = dt THEN {items[1]} ELSE {}

AudioFlagItem(clock, userId) ==
    [Item(clock, "audio-analysis-in-progress") EXCEPT
        !.userId = userId, !.status = "STARTED", !.currentStep = "START"]

AudioResultItem(clock, userId, analysis_result) ==
    [Item(clock, "audio-analysis-result") EXCEPT
        !.userId = userId, !.audioAnalysisData = analysis_result]

\* what s3_client.head_object and scenarios_table.get_item answer
StartAnswers == {"ok", "no_audio", "no_scenario"}

\* start_handler.lambda_handler
StartOutput(event, e) ==
    [success |-> "true", sessionId |-> event.sessionId,
     audioKey |-> event.audioKey, scenarioId |-> event.scenarioId,
     language |-> Get(event, "language"), userId |-> event.userId,
     transcribeJobName |-> e, validated |-> "true",
     startTime |-> "utcnow"]

FailureOutput(event, errorType) ==
    [success |-> "false", error |-> "error",
     sessionId |-> Get(event, "sessionId"), errorType |-> errorType]

StartHandler(e) ==
    /\ exec[e].pc = "start"
    /\ LET event == exec[e].event
       IN  \E found \in StartAnswers, ok \in Answers :
             IF ~AllPresent(event, {"audioKey", "sessionId", "scenarioId",
                                    "userId"})
             THEN /\ exec' = [exec EXCEPT ![e] =
                        ExecReturn(@, FailureOutput(event,
                                                    "StartAnalysisError"))]
                  /\ UNCHANGED <<table, now>>
             ELSE IF found = "ok"
             THEN /\ table' = IF ok
                              THEN put_item(table,
                                            AudioFlagItem(now, event.userId))
                              ELSE table
                  /\ now' = now + 1
                  /\ exec' = [exec EXCEPT ![e] =
                        ExecReturn([@ EXCEPT !.called = {"s3", "scenarios"},
                                             !.side = ~ok],
                                   StartOutput(event, e))]
             ELSE /\ exec' = [exec EXCEPT ![e] =
                        ExecReturn([@ EXCEPT !.called =
                                        IF found = "no_audio" THEN {"s3"}
                                        ELSE {"s3", "scenarios"}],
                                   FailureOutput(event, "StartAnalysisError"))]
                  /\ UNCHANGED <<table, now>>
    /\ UNCHANGED <<refVars, otherVars, ticks, api>>

\* transcribe_handler.lambda_handler up to its update_analysis_progress
TranscribeHandler(e) ==
    /\ exec[e].pc = "transcribe"
    /\ LET event == exec[e].event
       IN  \E started \in BOOLEAN :
             exec' = [exec EXCEPT ![e] =
               IF ~AllPresent(event, {"sessionId", "audioKey",
                                      "transcribeJobName"})
               THEN ExecCallUpdate(@,
                        Update("ERROR", "error", "START_TRANSCRIBE"),
                        Merge(event, [success |-> "false", error |-> "error",
                                      errorType |-> "TranscribeStartError"]),
                        "return")
               ELSE IF started
               THEN ExecCallUpdate([@ EXCEPT !.called = {"transcribe"}],
                        Update("TRANSCRIBING", None, None),
                        Merge(event, [jobStatus |-> "IN_PROGRESS",
                                      outputLocation |-> "s3://transcripts",
                                      transcribeStartTime |-> "utcnow"]),
                        "return")
               ELSE ExecCallUpdate([@ EXCEPT !.called = {"transcribe"}],
                        Update("ERROR", "error", "START_TRANSCRIBE"),
                        Merge(event, [success |-> "false", error |-> "error",
                                      errorType |-> "TranscribeStartError"]),
                        "return")]
    /\ UNCHANGED <<refVars, otherVars, table, now, ticks, api>>

\* what transcribe_client.get_transcription_job answers
JobAnswers == {"IN_PROGRESS", "COMPLETED", "FAILED", "BadRequestException",
               "Exception"}

\* check_handler.lambda_handler up to its update_analysis_progress
CheckOutput(event, answer) ==
    IF answer = "COMPLETED"
    THEN Merge(event, [jobStatus |-> "COMPLETED", checkTime |-> "utcnow",
                       transcriptFileUri |-> "https://s3.transcript",
                       completionTime |-> "job.CompletionTime"])
    ELSE IF answer = "FAILED"
    THEN Merge(event, [jobStatus |-> "FAILED", checkTime |-> "utcnow",
                       failureReason |-> "job.FailureReason"])
    ELSE IF answer = "IN_PROGRESS"
    THEN Merge(event, [jobStatus |-> "IN_PROGRESS", checkTime |-> "utcnow",
                       transcribeStartTime |-> "job.StartTime"])
    ELSE IF answer = "BadRequestException"
    THEN Merge(event, [jobStatus |-> "FAILED", error |-> "error",
                       errorType |-> "JobNotFound"])
    ELSE Merge(event, [success |-> "false", jobStatus |-> "FAILED",
                       error |-> "error",
                       errorType |-> "TranscribeCheckError"])

CheckUpdate(answer) ==
    IF answer = "COMPLETED" THEN Update("TRANSCRIBE_COMPLETED", None, None)
    ELSE IF answer = "FAILED"
    THEN Update("ERROR", "job.FailureReason", "TRANSCRIBE")
    ELSE IF answer = "IN_PROGRESS" THEN Update("TRANSCRIBING", None, None)
    ELSE Update("ERROR", "error", "CHECK_TRANSCRIBE")

CheckHandler(e) ==
    /\ exec[e].pc = "check"
    /\ LET event == exec[e].event
       IN  \E job \in JobAnswers :
             LET valid == AllPresent(event, {"sessionId",
                                             "transcribeJobName"})
                 answer == IF valid THEN job ELSE "Exception"
             IN  exec' = [exec EXCEPT ![e] =
                    ExecCallUpdate([@ EXCEPT !.called =
                                        IF valid THEN {"transcribe"} ELSE {}],
                                   CheckUpdate(answer),
                                   CheckOutput(event, answer), "return")]
    /\ UNCHANGED <<refVars, otherVars, table, now, ticks, api>>

\* process_handler.lambda_handler up to its first update_analysis_progress
ProcessFailure(event) ==
    Merge(event, [success |-> "false", error |-> "error",
                  errorType |-> "AIAnalysisError"])

ProcessHandler(e) ==
    /\ exec[e].pc = "process"
    /\ LET event == exec[e].event
       IN  exec' = [exec EXCEPT ![e] =
               IF AllPresent(event, {"sessionId", "transcriptFileUri"})
               THEN ExecCallUpdate(@, Update("ANALYZING", None, None),
                                   event, "run")
               ELSE ExecCallUpdate(@, Update("ERROR", "error", "AI_ANALYSIS"),
                                   ProcessFailure(event), "return")]
    /\ UNCHANGED <<refVars, otherVars, table, now, ticks, api>>

\* what s3_client.get_object and analyze_speakers_and_roles answer
ProcessAnswers == {"ok", "no_transcript", "agent_error"}

\* process_handler.lambda_handler: the download of the transcript, the
\* analysis by the agent and the clean-up of the Transcribe job
ProcessRun(e) ==
    /\ exec[e].pc = "run"
    /\ LET event == exec[e].event
       IN  \E analysed \in ProcessAnswers, ok \in Answers :
             exec' = [exec EXCEPT ![e] =
               IF analysed = "ok"
               THEN LET cleanup ==
                            Get(event, "transcribeJobName") \notin {None, ""}
                    IN  ExecReturn(
                            [@ EXCEPT !.called = {"s3", "agent"} \cup
                                  (IF cleanup THEN {"transcribe"} ELSE {}),
                                      !.side = @ \/ (cleanup /\ ~ok)],
                            Merge(event, [audioAnalysisResult |-> e,
                                          analysisCompletedTime |-> "utcnow"]))
               ELSE ExecCallUpdate(
                        [@ EXCEPT !.called =
                              IF analysed = "no_transcript" THEN {"s3"}
                              ELSE {"s3", "agent"}],
                        Update("ERROR", "error", "AI_ANALYSIS"),
                        ProcessFailure(event), "return")]
    /\ UNCHANGED <<refVars, otherVars, table, now, ticks, api>>

\* update_analysis_progress: the query
ExecUpdateQuery(e) ==
    /\ exec[e].pc = "upd_query"
    /\ \E ok \in Answers :
          LET items == QueryLimit1(table, "audio-analysis-in-progress")
          IN  exec' = [exec EXCEPT ![e] =
                IF ~ok THEN ExecAfterUpdate([@ EXCEPT !.side = TRUE])
                ELSE IF items = {} THEN ExecAfterUpdate(@)
                ELSE [@ EXCEPT !.pc = "upd_put", !.found = items]]
    /\ UNCHANGED <<refVars, otherVars, table, now, ticks, api>>

\* update_analysis_progress: existing_item is changed and put back; only the
\* copy in transcribe_handler sets status
UpdatedItem(existing_item, upd, stage) ==
    [existing_item EXCEPT
        !.currentStep = upd.step,
        !.status = IF stage = "transcribe" THEN "IN_PROGRESS" ELSE @,
        !.error = IF upd.error # None THEN upd.error ELSE @,
        !.step = IF upd.failed # None THEN upd.failed ELSE @]

ExecUpdatePut(e) ==
    /\ exec[e].pc = "upd_put"
    /\ \E existing_item \in exec[e].found, ok \in Answers :
          /\ table' = IF ok
                      THEN put_item(table, UpdatedItem(existing_item,
                                               exec[e].upd, exec[e].stage))
                      ELSE table
          /\ exec' = [exec EXCEPT ![e] =
                        ExecAfterUpdate([@ EXCEPT !.side = @ \/ ~ok])]
    /\ UNCHANGED <<refVars, otherVars, now, ticks, api>>

\* save_handler.lambda_handler up to delete_analysis_progress_flag
SaveOutput(event) ==
    [success |-> "true", sessionId |-> event.sessionId,
     resultsSaved |-> "true", completedTime |-> "utcnow"]

SaveHandler(e) ==
    /\ exec[e].pc = "save"
    /\ LET event == exec[e].event
       IN  \E saved \in BOOLEAN :
             IF AllPresent(event, {"sessionId", "userId", "scenarioId",
                                   "audioAnalysisResult"}) /\ saved
             THEN /\ table' = put_item(table,
                        AudioResultItem(now, event.userId,
                                        event.audioAnalysisResult))
                  /\ now' = now + 1
                  /\ exec' = [exec EXCEPT ![e] =
                        [@ EXCEPT !.pc = "del_query",
                                  !.out = SaveOutput(event)]]
             ELSE /\ exec' = [exec EXCEPT ![e] =
                        LET out == FailureOutput(event, "SaveResultsError")
                        IN  IF Get(event, "sessionId") \in {None, ""}
                            THEN ExecReturn(@, out)
                            ELSE [@ EXCEPT !.pc = "del_query", !.out = out]]
                  /\ UNCHANGED <<table, now>>
    /\ UNCHANGED <<refVars, otherVars, ticks, api>>

\* delete_analysis_progress_flag: the query
ExecDeleteQuery(e) ==
    /\ exec[e].pc = "del_query"
    /\ \E ok \in Answers :
          LET items == QueryAsc(table, "audio-analysis-in-progress")
          IN  exec' = [exec EXCEPT ![e] =
                IF ~ok THEN ExecReturn([@ EXCEPT !.side = TRUE], @.out)
                ELSE IF items = <<>> THEN ExecReturn(@, @.out)
                ELSE [@ EXCEPT !.pc = "del_items", !.items = items]]
    /\ UNCHANGED <<refVars, otherVars, table, now, ticks, api>>

\* delete_analysis_progress_flag: one delete_item of the loop
ExecDeleteItem(e) ==
    /\ exec[e].pc = "del_items"
    /\ \E ok \in Answers :
          IF ok
          THEN /\ table' = delete_item(table, Head(exec[e].items).createdAt)
               /\ exec' = [exec EXCEPT ![e] =
                      LET r == [@ EXCEPT !.items = Tail(@)]
                      IN  IF r.items = <<>> THEN ExecReturn(r, r.out) ELSE r]
          ELSE /\ table' = table
               /\ exec' = [exec EXCEPT ![e] =
                      ExecReturn([@ EXCEPT !.side = TRUE], @.out)]
    /\ UNCHANGED <<refVars, otherVars, now, ticks, api>>

ExecNext ==
    \E e \in Execs :
        \/ StartHandler(e)
        \/ TranscribeHandler(e)
        \/ CheckHandler(e)
        \/ ProcessHandler(e)
        \/ ProcessRun(e)
        \/ ExecUpdateQuery(e)
        \/ ExecUpdatePut(e)
        \/ SaveHandler(e)
        \/ ExecDeleteQuery(e)
        \/ ExecDeleteItem(e)
        \/ StateMachineStep(e)

(***************************************************************************)
(* A stage handler invoked on its own with a payload of the caller's       *)
(* making: the payload the stage before it produces, with one of the       *)
(* fields the handler validates left out or empty.                         *)
(***************************************************************************)
Stages == {"start", "transcribe", "check", "process", "save"}

\* the fields of all([...]) in the validation of each lambda_handler
Required(stage) ==
    IF stage = "start"
    THEN {"audioKey", "sessionId", "scenarioId", "userId"}
    ELSE IF stage = "transcribe"
    THEN {"sessionId", "audioKey", "transcribeJobName"}
    ELSE IF stage = "check" THEN {"sessionId", "transcribeJobName"}
    ELSE IF stage = "process" THEN {"sessionId", "transcriptFileUri"}
    ELSE {"sessionId", "userId", "scenarioId", "audioAnalysisResult"}

\* the payload that reaches a stage of an execution whose stages succeed
FullPayload(stage, e) ==
    LET started == StartOutput(step_functions_input(
                       [audioKey |-> "audio.mp3", scenarioId |-> "scenario1",
                        language |-> "ja"]), e)
        transcribing == Merge(started,
                            [jobStatus |-> "IN_PROGRESS",
                             outputLocation |-> "s3://transcripts",
                             transcribeStartTime |-> "utcnow"])
        transcribed == CheckOutput(transcribing, "COMPLETED")
    IN  IF stage = "start"
        THEN step_functions_input([audioKey |-> "audio.mp3",
                                   scenarioId |-> "scenario1",
                                   language |-> "ja"])
        ELSE IF stage = "transcribe" THEN started
        ELSE IF stage = "check" THEN transcribing
        ELSE IF stage = "process" THEN transcribed
        ELSE Merge(transcribed, [audioAnalysisResult |-> e,
                                 analysisCompletedTime |-> "utcnow"])

StagePayloads(stage, e) ==
    LET full == FullPayload(stage, e)
    IN  {[k \in DOMAIN full \ {x} |-> full[k]] : x \in Required(stage)}
        \cup {[full EXCEPT ![x] = ""] : x \in Required(stage)}

StageInvoke(e) ==
    /\ workload = "stage-invocation"
    /\ exec[e].pc = "idle"
    /\ ProcOrder[e] <= concurrency
    /\ \E stage \in Stages :
         \E event \in StagePayloads(stage, e) :
            exec' = [exec EXCEPT ![e] =
                        [ExecIdle EXCEPT !.pc = stage, !.stage = stage,
                                         !.event = event]]
    /\ UNCHANGED <<refVars, otherVars, table, now, ticks, api>>

StageNext == \E e \in Execs : StageInvoke(e)

(***************************************************************************)
(* The polling endpoints: GET /audio-analysis/<session_id>/status and      *)
(* GET /audio-analysis/<session_id>/results, asked by a signed-in user.    *)
(***************************************************************************)
Users == {"user1", "user2"}

PollIdle ==
    [pc |-> "idle", route |-> None, user |-> None,
     response |-> [statusCode |-> 0, status |-> None, currentStep |-> None,
                   keys |-> {}, error |-> None],
     \* history of the request, read by the properties only
     raised |-> None]

\* the answer of a handler that returned a dictionary
PollReturn(r, status, currentStep, keys) ==
    [PollIdle EXCEPT !.pc = "done", !.route = r.route, !.user = r.user,
                     !.response = [statusCode |-> 200, status |-> status,
                                   currentStep |-> currentStep,
                                   keys |-> keys, error |-> None]]

\* a lambda_handler without its except clause: the exception is the outcome
\* of the invocation and no response is built
PollRaise_escapes(r, exception) ==
    [PollIdle EXCEPT !.pc = "done", !.route = r.route, !.user = r.user,
                     !.raised = exception]

\* the handler raised: the exception leaves app.resolve and lambda_handler
\* answers with its except clause
PollRaise(r, exception) ==
    [PollIdle EXCEPT !.pc = "done", !.route = r.route, !.user = r.user,
                     !.raised = exception,
                     !.response = [statusCode |-> 500, status |-> None,
                                   currentStep |-> None,
                                   keys |-> BodyKeys(500, {}),
                                   error |-> ApiBodyError(500)]]

\* the ownership test left out: every caller passes
Owns_anyone(item, user_id) == TRUE

\* the test of the record's userId against get_user_id_from_event()
Owns(item, user_id) == item.userId = user_id

PollInvoke ==
    /\ workload = "audio-analysis"
    /\ poll.pc \in {"idle", "done"}
    /\ \E route \in {"status", "results"}, user \in Users :
          poll' = [PollIdle EXCEPT !.pc = "result_query", !.route = route,
                                   !.user = user]
    /\ UNCHANGED <<envVars, retry, refVars, audioVars, table, now, ticks>>

\* get_analysis_results, and get_analysis_status up to its test of the
\* existing result
PollResultQuery ==
    /\ poll.pc = "result_query"
    /\ \E ok \in Answers :
          LET result == IF ok THEN get_existing_analysis_result(table)
                        ELSE <<>>
          IN  poll' =
                IF poll.route = "results"
                THEN IF result = <<>>
                     THEN PollRaise(poll, "ResourceNotFoundError")
                     ELSE IF ~Owns(result[1], poll.user)
                     THEN PollRaise(poll, "ResourceNotFoundError")
                     ELSE PollReturn(poll, None, None,
                            {"success", "sessionId", "audioAnalysis",
                             "scenarioId", "language", "createdAt"})
                ELSE IF result = <<>>
                     THEN [poll EXCEPT !.pc = "progress_query"]
                     ELSE IF ~Owns(result[1], poll.user)
                     THEN PollRaise(poll, "ResourceNotFoundError")
                     ELSE PollReturn(poll, "COMPLETED", None,
                            {"success", "sessionId", "status", "hasResult"})
    /\ UNCHANGED <<envVars, retry, refVars, audioVars, table, now, ticks>>

\* get_analysis_status from its call of get_analysis_progress
PollProgressQuery ==
    /\ poll.pc = "progress_query"
    /\ \E ok \in Answers :
          LET progress_data == IF ok THEN get_analysis_progress(table, now)
                               ELSE {}
          IN  poll' =
                IF progress_data = {}
                THEN PollReturn(poll, "NOT_STARTED", None,
                        {"success", "sessionId", "status", "hasResult"})
                ELSE LET item == CHOOSE r \in progress_data : TRUE
                     IN  IF ~Owns(item, poll.user)
                         THEN PollRaise(poll, "ResourceNotFoundError")
                         ELSE PollReturn(poll,
                                IF item.status = None THEN "IN_PROGRESS"
                                ELSE item.status,
                                IF item.currentStep = None THEN "UNKNOWN"
                                ELSE item.currentStep,
                                {"success", "sessionId", "status",
                                 "currentStep", "hasResult", "progress"})
    /\ UNCHANGED <<envVars, retry, refVars, audioVars, table, now, ticks>>

PollNext == PollInvoke \/ PollResultQuery \/ PollProgressQuery

(***************************************************************************)
(* The retry loop of _identify_speaker_roles_with_agent.  The text of an   *)
(* error is a sequence of characters; the model calls answer with one of   *)
(* the texts below or succeed.                                             *)
(***************************************************************************)
max_retries == 5
base_delay == 2

ErrorTexts ==
    [ThrottlingException |->
        <<"T", "h", "r", "o", "t", "t", "l", "i", "n", "g">>,
     TooManyRequests |->
        <<"T", "O", "O", " ", "M", "A", "N", "Y", " ",
          "r", "e", "q", "u", "e", "s", "t", "s">>,
     Throttled |-> <<"t", "h", "r", "o", "t", "t", "l", "e", "d">>,
     Timeout |-> <<"T", "i", "m", "e", "o", "u", "t">>]

Succeeds == "ok"

\* str.lower() on one character
LowerChar(c) ==
    LET upper == <<"A", "M", "N", "O", "T", "Y">>
        lower == <<"a", "m", "n", "o", "t", "y">>
    IN  IF \E i \in 1..Len(upper) : upper[i] = c
        THEN lower[CHOOSE i \in 1..Len(upper) : upper[i] = c]
        ELSE c

\* str(e).lower()
Lower(text) == [i \in 1..Len(text) |-> LowerChar(text[i])]

\* sub in text
Contains(text, sub) ==
    \E i \in 1..(Len(text) - Len(sub) + 1) :
        SubSeq(text, i, i + Len(sub) - 1) = sub

\* the test on str(e) as it is, without lower()
IsThrottling_case_sensitive(error) ==
    LET error_str == ErrorTexts[error]
    IN  \/ Contains(error_str, <<"t", "h", "r", "o", "t", "t", "l", "i",
                                 "n", "g">>)
        \/ Contains(error_str, <<"t", "o", "o", " ", "m", "a", "n", "y", " ",
                                 "r", "e", "q", "u", "e", "s", "t", "s">>)

\* the test for the stem 'throttl' in place of 'throttling'
IsThrottling_stem(error) ==
    LET error_str == Lower(ErrorTexts[error])
    IN  \/ Contains(error_str, <<"t", "h", "r", "o", "t", "t", "l">>)
        \/ Contains(error_str, <<"t", "o", "o", " ", "m", "a", "n", "y", " ",
                                 "r", "e", "q", "u", "e", "s", "t", "s">>)

\* 'throttling' in error_str or 'too many requests' in error_str
IsThrottling(error) ==
    LET error_str == Lower(ErrorTexts[error])
    IN  \/ Contains(error_str, <<"t", "h", "r", "o", "t", "t", "l", "i",
                                 "n", "g">>)
        \/ Contains(error_str, <<"t", "o", "o", " ", "m", "a", "n", "y", " ",
                                 "r", "e", "q", "u", "e", "s", "t", "s">>)

\* random.uniform(0, 1), in milliseconds
JitterMillis == {0, 500, 1000}

\* a backoff that grows by base_delay with each retry instead of doubling
Delay_linear(retry_count, jitter) ==
    base_delay * 1000 * (retry_count + 1) + jitter

\* base_delay * (2 ** retry_count) + random.uniform(0, 1), in milliseconds
Delay(retry_count, jitter) == base_delay * 1000 * (2 ^ retry_count) + jitter

NoRaise == [kind |-> None, count |-> 0, cause |-> None]

RetryIdle ==
    [pc |-> "idle", retry_count |-> 0, error |-> None, delay |-> 0,
     \* the calls of time.sleep made so far, each with its argument
     sleeps |-> <<>>, result |-> 0, raised |-> NoRaise,
     \* history of the call, read by the properties only: what each attempt
     \* answered
     calls |-> <<>>]

\* one iteration of the loop up to its return or its except clause: the
\* agent is called and answers
RetryAttempt ==
    /\ retry.pc = "try"
    /\ \E answer \in DOMAIN ErrorTexts \cup {Succeeds} :
          retry' = IF answer = Succeeds
                   THEN [retry EXCEPT !.pc = "returned",
                                      !.calls = Append(@, answer),
                                      !.result = Len(retry.calls) + 1]
                   ELSE [retry EXCEPT !.pc = "except", !.error = answer,
                                      !.calls = Append(@, answer)]
    /\ UNCHANGED <<envVars, poll, table, now, ticks, refVars, audioVars>>

\* the except clause: the delay of a throttled attempt is computed, or the
\* call ends with an exception
RetryExcept ==
    /\ retry.pc = "except"
    /\ \E jitter \in JitterMillis :
          retry' =
             IF IsThrottling(retry.error)
             THEN IF retry.retry_count < max_retries - 1
                  THEN [retry EXCEPT !.pc = "sleep",
                           !.delay = Delay(retry.retry_count, jitter)]
                  ELSE [retry EXCEPT !.pc = "raised",
                           !.raised = [kind |-> "exhausted",
                                       count |-> max_retries,
                                       cause |-> retry.error]]
             ELSE [retry EXCEPT !.pc = "raised",
                      !.raised = [kind |-> "reraised", count |-> 0,
                                  cause |-> retry.error]]
    /\ UNCHANGED <<envVars, poll, table, now, ticks, refVars, audioVars>>

\* the loop without its time.sleep: a throttled attempt is retried at once
RetrySleep_skipped ==
    /\ retry.pc = "sleep"
    /\ retry' = [retry EXCEPT !.pc = "try", !.error = None, !.delay = 0,
                              !.retry_count = @ + 1]
    /\ UNCHANGED <<envVars, poll, table, now, ticks, refVars, audioVars>>

\* time.sleep(delay); continue: the next iteration of range(max_retries),
\* or the end of the loop and the exception after it
RetrySleep ==
    /\ retry.pc = "sleep"
    /\ retry' = IF retry.retry_count + 1 < max_retries
                THEN [retry EXCEPT !.pc = "try", !.error = None,
                                   !.delay = 0,
                                   !.sleeps = Append(@, retry.delay),
                                   !.retry_count = @ + 1]
                ELSE [retry EXCEPT !.pc = "raised", !.delay = 0,
                         !.sleeps = Append(@, retry.delay),
                         !.raised = [kind |-> "unexpected", count |-> 0,
                                     cause |-> None]]
    /\ UNCHANGED <<envVars, poll, table, now, ticks, refVars, audioVars>>

RetryNext == RetryAttempt \/ RetryExcept \/ RetrySleep

(***************************************************************************)
(* Time passes while no handler writes: up to the staleness threshold of   *)
(* the workload, or just past it.  Only the staleness checks read the      *)
(* clock, and only to compute the age of an in-progress record, so the     *)
(* jumps explored are those taken while a request stands before its check  *)
(* and the session has such a record.                                      *)
(***************************************************************************)
StaleSeconds ==
    IF workload = "reference-check" THEN REF_STALE_SECONDS
    ELSE AUDIO_STALE_SECONDS

InProgressTypes ==
    {"reference-check-in-progress", "audio-analysis-in-progress"}

Tick ==
    /\ ticks < MaxTicks
    /\ \/ \E p \in RefProcs : ref[p].pc = "check_progress"
       \/ \E a \in ApiProcs : api[a].pc = "check_progress"
    /\ \E r \in table : r.dataType \in InProgressTypes
    /\ ticks' = ticks + 1
    /\ \E d \in {StaleSeconds - 1, StaleSeconds} : now' = now + d
    /\ UNCHANGED <<audioVars, refVars, otherVars, table>>

(***************************************************************************)
(* The session's partition before the first modelled request.  For a       *)
(* reference check: empty; the final-feedback item of a chat session; that *)
(* item and the flag of an earlier reference check whose invocation died.  *)
(* For an audio analysis: empty, or the flag of an earlier pipeline that   *)
(* died after its start stage.                                             *)
(***************************************************************************)
RefInitialTables ==
    {{}, {Item(0, "final-feedback")},
     {Item(0, "final-feedback"), RefFlagItem(1)}}

AudioInitialTables == {{}, {AudioFlagItem(1, "user1")}}

Init ==
    /\ \/ workload = "reference-check" /\ table \in RefInitialTables
       \/ workload = "audio-analysis" /\ table \in AudioInitialTables
    /\ now = 2
    /\ ticks = 0
    /\ ref = [p \in RefProcs |-> RefIdle]
    /\ api = [a \in ApiProcs |-> ApiIdle]
    /\ exec = [e \in Execs |-> ExecIdle]
    /\ retry = RetryIdle
    /\ faults = FALSE
    /\ concurrency = 2
    /\ poll = PollIdle

RefNext ==
    \E p \in RefProcs :
        \/ RefInvoke(p)
        \/ RefCheckExisting(p)
        \/ RefCheckProgress(p)
        \/ RefDeleteQuery(p)
        \/ RefDeleteItem(p)
        \/ RefSetFlag(p)
        \/ RefGetScenario(p)
        \/ RefGetMessages(p)
        \/ RefSaveEmpty(p)
        \/ RefCallAgent(p)
        \/ RefSave(p)
        \/ RefTimeout(p)

Next == RefNext \/ ApiNext \/ ExecNext \/ Tick

Spec == Init /\ [][Next]_vars

\* One request of a kind is served, the services it calls may fail, the
\* client polls the status and the results of the audio analysis, and stage
\* handlers are also invoked on their own.
InitFaults ==
    /\ \/ workload = "reference-check" /\ table \in RefInitialTables
       \/ workload = "audio-analysis" /\ table \in AudioInitialTables
       \/ workload = "stage-invocation" /\ table \in AudioInitialTables
    /\ now = 2
    /\ ticks = 0
    /\ ref = [p \in RefProcs |-> RefIdle]
    /\ api = [a \in ApiProcs |-> ApiIdle]
    /\ exec = [e \in Execs |-> ExecIdle]
    /\ retry = RetryIdle
    /\ faults = TRUE
    /\ concurrency = 1
    /\ poll = PollIdle

NextFaults == Next \/ PollNext \/ StageNext

SpecFaults == InitFaults /\ [][NextFaults]_vars

(***************************************************************************)
(* Sessions API: GET /sessions/<session_id>/analysis-results.  The request *)
(* is a third kind of poll; the partition is the one save_handler and      *)
(* save_feedback_to_dynamodb write into.                                   *)
(***************************************************************************)
\* the final-feedback items a session gets in the modelled calls
MaxSaved == 2

FeedbackItems(t) == {r \in t : r.dataType = "final-feedback"}

\* response_data of handle_audio_analysis_session
AudioSessionKeys ==
    {"success", "sessionType", "sessionId", "sessionInfo", "messages",
     "realtimeMetrics", "feedback", "finalMetrics", "feedbackCreatedAt",
     "complianceViolations", "audioAnalysis", "goalResults"}

\* response_data of the regular branch for a partition without
\* realtime-metrics items
RegularSessionKeys(final_feedback) ==
    {"success", "sessionType", "sessionId", "sessionInfo", "messages",
     "realtimeMetrics", "complianceViolations"}
      \cup IF final_feedback # {}
           THEN {"feedback", "finalMetrics", "feedbackCreatedAt"} ELSE {}

\* the resolver answers an exception of the route: 404 for NotFoundError,
\* 500 for InternalServerError
ResultsRaise(r, exception) ==
    [PollIdle EXCEPT !.pc = "done", !.route = r.route, !.user = r.user,
                     !.raised = exception,
                     !.response.statusCode =
                        IF exception = "NotFoundError" THEN 404 ELSE 500,
                     !.response.keys = {"statusCode", "message"}]

ResultsInvoke ==
    /\ workload = "analysis-results"
    /\ poll.pc \in {"idle", "done"}
    /\ Cardinality(FeedbackItems(table)) < MaxSaved
    /\ \E user \in Users :
          poll' = [PollIdle EXCEPT !.pc = "classify",
                                   !.route = "analysis-results",
                                   !.user = user]
    /\ UNCHANGED <<envVars, retry, refVars, audioVars, table, now, ticks>>

\* get_session_analysis_results up to its branch, and the ownership test
\* at the head of handle_audio_analysis_session, whose NotFoundError is
\* caught and raised again as InternalServerError
ResultsClassify ==
    /\ poll.pc = "classify"
    /\ \E ok \in Answers :
          LET audio_analysis_items ==
                  QueryLimit1(table, "audio-analysis-result")
          IN  poll' =
                IF ~ok THEN ResultsRaise(poll, "InternalServerError")
                ELSE IF audio_analysis_items = {}
                THEN [poll EXCEPT !.pc = "regular_session"]
                ELSE IF \E item \in audio_analysis_items :
                            ~Owns(item, poll.user)
                THEN ResultsRaise(poll, "InternalServerError")
                ELSE [poll EXCEPT !.pc = "audio_session"]
    /\ UNCHANGED <<envVars, retry, refVars, audioVars, table, now, ticks>>

\* handle_audio_analysis_session from the scoring to its return: the
\* feedback is generated, saved as a final-feedback item, and the
\* audio-analysis response is returned also when the save failed; the clock
\* is read for the createdAt of the saved item only
ResultsAudioSession ==
    /\ poll.pc = "audio_session"
    /\ \E generated \in Answers, save_success \in Answers :
          IF ~generated
          THEN /\ poll' = ResultsRaise(poll, "InternalServerError")
               /\ UNCHANGED <<table, now>>
          ELSE /\ table' = IF save_success
                           THEN put_item(table, Item(now, "final-feedback"))
                           ELSE table
               /\ now' = IF save_success THEN now + 1 ELSE now
               /\ poll' = PollReturn(poll, None, None, AudioSessionKeys)
    /\ UNCHANGED <<envVars, retry, refVars, audioVars, ticks>>

\* the regular branch: the scan of the sessions table for the caller's
\* session, then the response from the items of the partition
ResultsRegularSession ==
    /\ poll.pc = "regular_session"
    /\ \E session_items \in BOOLEAN :
          poll' = IF ~session_items
                  THEN ResultsRaise(poll, "NotFoundError")
                  ELSE PollReturn(poll, None, None,
                                  RegularSessionKeys(FeedbackItems(table)))
    /\ UNCHANGED <<envVars, retry, refVars, audioVars, table, now, ticks>>

ResultsNext ==
    \/ ResultsInvoke
    \/ ResultsClassify
    \/ ResultsAudioSession
    \/ ResultsRegularSession

\* the partition of a session before the first call: the result save_handler
\* wrote for the analysis of a user, alone or with a final-feedback item
\* older or newer than it; the final-feedback item of a chat session; empty
ResultsInitialTables ==
    UNION {{{AudioResultItem(1, u, "e1")},
            {Item(0, "final-feedback"), AudioResultItem(1, u, "e1")},
            {AudioResultItem(1, u, "e1"), Item(2, "final-feedback")}} :
           u \in Users}
      \cup {{}, {Item(0, "final-feedback")}}

InitResults ==
    /\ workload = "analysis-results"
    /\ table \in ResultsInitialTables
    /\ now = 3
    /\ ticks = 0
    /\ ref = [p \in RefProcs |-> RefIdle]
    /\ api = [a \in ApiProcs |-> ApiIdle]
    /\ exec = [e \in Execs |-> ExecIdle]
    /\ retry = RetryIdle
    /\ faults \in BOOLEAN
    /\ concurrency = 1
    /\ poll = PollIdle

SpecResults == InitResults /\ [][ResultsNext]_vars

\* One request of a kind is served for a session whose partition may hold an
\* in-progress record written by another writer: its createdAt is empty or
\* is not an ISO timestamp.
UnparsedTexts == {"garbled", ""}

RefUnparsedTables ==
    {{Item(0, "final-feedback"),
      [RefFlagItem(1) EXCEPT !.createdAtText = x]} : x \in UnparsedTexts}

AudioUnparsedTables ==
    {{[AudioFlagItem(1, "user1") EXCEPT !.createdAtText = x]} :
        x \in UnparsedTexts}

InitParse ==
    /\ \/ /\ workload = "reference-check"
          /\ table \in RefInitialTables \cup RefUnparsedTables
       \/ /\ workload = "audio-analysis"
          /\ table \in AudioInitialTables \cup AudioUnparsedTables
    /\ now = 2
    /\ ticks = 0
    /\ ref = [p \in RefProcs |-> RefIdle]
    /\ api = [a \in ApiProcs |-> ApiIdle]
    /\ exec = [e \in Execs |-> ExecIdle]
    /\ retry = RetryIdle
    /\ faults = FALSE
    /\ concurrency = 1
    /\ poll = PollIdle

SpecParse == InitParse /\ [][Next]_vars

\* process_handler's agent identifies the speaker roles of one transcript
InitRetry ==
    /\ workload = "speaker-roles"
    /\ table = {}
    /\ now = 2
    /\ ticks = 0
    /\ ref = [p \in RefProcs |-> RefIdle]
    /\ api = [a \in ApiProcs |-> ApiIdle]
    /\ exec = [e \in Execs |-> ExecIdle]
    /\ retry = [RetryIdle EXCEPT !.pc = "try"]
    /\ faults = FALSE
    /\ concurrency = 1
    /\ poll = PollIdle

SpecRetry == InitRetry /\ [][RetryNext]_vars

(***************************************************************************)
(* Properties.                                                             *)
(***************************************************************************)

\* C1: of two concurrent invocations of the guard for a session that had
\* neither a result record nor an in-progress record when they arrived, at
\* most one proceeds to the work (reference check: past the guard and
\* working; audio analysis: about to start the execution); the other is
\* answered 409.
C1_AtMostOneProceeds ==
    /\ \A p, q \in RefProcs :
          (p # q /\ ref[p].sawClean /\ ref[q].sawClean)
              => ~(ref[p].pc \in RefWorking /\ ref[q].pc \in RefWorking)
    /\ \A a, b \in ApiProcs :
          (a # b /\ api[a].sawClean /\ api[b].sawClean)
              => ~(api[a].pc = "start_execution"
                       /\ api[b].pc = "start_execution")

\* C2: a guard that finds a result record returns at once, whatever
\* in-progress records exist: get_reference_check answers 200 with the
\* referenceCheckData of the newest result record and start_audio_analysis
\* answers 200 COMPLETED; the table is left as it is and no execution is
\* started.
C2_ResultShortCircuits ==
    [][/\ \A p \in RefProcs :
             (/\ ref[p].pc = "check_result"
              /\ ref'[p] # ref[p]
              /\ \E r \in table : r.dataType = "reference-check")
             => /\ ref'[p].pc = "done"
                /\ ref'[p].response.statusCode = 200
                /\ \E r \in table :
                      /\ r.dataType = "reference-check"
                      /\ \A q \in table : q.dataType = "reference-check"
                                             => q.createdAt <= r.createdAt
                      /\ ref'[p].response.body = r.referenceCheckData
                /\ table' = table
       /\ \A a \in ApiProcs :
             (/\ api[a].pc = "check_result"
              /\ api'[a] # api[a]
              /\ \E r \in table : r.dataType = "audio-analysis-result")
             => /\ api'[a].pc = "done"
                /\ api'[a].response.statusCode = 200
                /\ api'[a].response.status = "COMPLETED"
                /\ table' = table
                /\ exec' = exec]_vars

\* a reference check was answered from the stored result while an
\* in-progress record of the session was in the table
C2_Witness ==
    \E p \in RefProcs :
        /\ ref[p].pc = "done"
        /\ ref[p].decision = "ALREADY_DONE"
        /\ ref[p].response.statusCode = 200
        /\ \E r \in table : r.dataType = "reference-check-in-progress"
        /\ \E r \in table : /\ r.dataType = "reference-check"
                            /\ r.referenceCheckData = ref[p].response.body

\* C3: when a run writes its marker while the session has no result and
\* every in-progress record it has (so the newest one) is older than the
\* staleness threshold, the in-progress records of the session are then the
\* new marker alone.
C3_StaleRecordGone ==
    [][\A dt \in InProgressTypes :
          LET old == {r.createdAt : r \in {q \in table : q.dataType = dt}}
              new == {r.createdAt : r \in {q \in table' : q.dataType = dt}}
          IN  (/\ old # {}
               /\ new \ old # {}
               /\ \A c \in old : now - c > StaleSeconds
               /\ ~\E r \in table : r.dataType \in {"reference-check",
                                                    "audio-analysis-result"})
              => new \cap old = {}]_vars

C5_OneFreshRecord ==
    \A dt \in InProgressTypes :
        Cardinality({r \in table : /\ r.dataType = dt
                                   /\ now - r.createdAt <= StaleSeconds}) <= 1

\* C6: a stage handler that runs for a session which has a result record
\* writes nothing: the table keeps its items, and so the session never has
\* a second result record.
C6_ResultImmutable ==
    [][(/\ \E r \in table : r.dataType = "audio-analysis-result"
        /\ \E e \in Execs : /\ exec[e].pc \in {"start", "transcribe", "check",
                                               "process", "save"}
                            /\ exec'[e] # exec[e])
       => /\ \A r \in table' : r \in table
          /\ Cardinality({r \in table' :
                            r.dataType = "audio-analysis-result"}) <= 1]_vars

\* C10: every key of the payload a stage handler received is a key of the
\* payload it returns.
C10_PayloadNeverNarrower ==
    \A e \in Execs :
        exec[e].pc = "returned"
            => DOMAIN exec[e].event \subseteq DOMAIN exec[e].out


\* C7: a call all of whose attempts were answered with a throttling error
\* ('throttling' or 'too many requests' in any case) makes no more than 5
\* attempts, and once it is over it has made 5 attempts and 4 sleeps and
\* has raised the exhausted-retries error that names 5.
C7_AlwaysThrottled ==
    (\A i \in 1..Len(retry.calls) :
        retry.calls[i] \in {"ThrottlingException", "TooManyRequests"})
    => /\ Len(retry.calls) <= 5
       /\ retry.pc \in {"returned", "raised"}
             => /\ Len(retry.calls) = 5
                /\ Len(retry.sleeps) = 4
                /\ retry.raised.kind = "exhausted"
                /\ retry.raised.count = 5

\* five throttled attempts, the call is over
C7_Witness ==
    /\ retry.pc = "raised"
    /\ Len(retry.calls) = 5
    /\ \A i \in 1..5 : retry.calls[i] \in {"ThrottlingException",
                                            "TooManyRequests"}

\* C8: after an attempt answered with an error that is not a throttling
\* error, at whatever attempt, the call does nothing but raise that error:
\* no sleep follows and no further attempt.
C8_OtherErrorReraised ==
    (/\ retry.calls # <<>>
     /\ retry.calls[Len(retry.calls)] \in {"Throttled", "Timeout"})
    => /\ retry.pc \in {"except", "raised"}
       /\ Len(retry.sleeps) = Len(retry.calls) - 1
       /\ retry.pc = "raised"
             => retry.raised = [kind |-> "reraised", count |-> 0,
                                cause |-> retry.calls[Len(retry.calls)]]

\* the third attempt was answered with an error that is no throttling, and
\* the call has raised
C8_Witness ==
    /\ retry.pc = "raised"
    /\ Len(retry.calls) = 3
    /\ retry.calls[3] = "Throttled"

\* C9: a call that returns at attempt k, after k - 1 throttled attempts,
\* returns the result of attempt k and has slept k - 1 times; k is at most
\* 5.
C9_SuccessAfterThrottling ==
    retry.pc = "returned"
    => LET k == Len(retry.calls)
       IN  /\ k <= 5
           /\ retry.calls[k] = Succeeds
           /\ \A i \in 1..(k - 1) :
                 retry.calls[i] \in {"ThrottlingException", "TooManyRequests"}
           /\ retry.result = k
           /\ Len(retry.sleeps) = k - 1
           /\ retry.raised = NoRaise

\* the call returned at its fifth attempt
C9_Witness ==
    /\ retry.pc = "returned"
    /\ Len(retry.calls) = 5
    /\ retry.result = 5

\* C11: in the output of transcribe_handler, check_handler and
\* process_handler every field of the payload the stage received, other than
\* the fields that report the outcome of the stage (success, jobStatus,
\* checkTime), is present with the value it came in with.
C11_FieldKeepsValue ==
    \A e \in Execs :
        (/\ exec[e].pc = "returned"
         /\ exec[e].stage \in {"transcribe", "check", "process"})
            => \A k \in DOMAIN exec[e].event
                            \ {"success", "jobStatus", "checkTime"} :
                  /\ k \in DOMAIN exec[e].out
                  /\ exec[e].out[k] = exec[e].event[k]

\* the errorType a stage handler's except clause puts in its payload
StageErrorType(stage) ==
    IF stage = "start" THEN "StartAnalysisError"
    ELSE IF stage = "transcribe" THEN "TranscribeStartError"
    ELSE IF stage = "check" THEN "TranscribeCheckError"
    ELSE IF stage = "process" THEN "AIAnalysisError"
    ELSE "SaveResultsError"

\* the field a stage handler adds to the payload when it did its work
StageProduct(stage) ==
    IF stage = "start" THEN "transcribeJobName"
    ELSE IF stage = "transcribe" THEN "outputLocation"
    ELSE IF stage = "check" THEN "jobStatus"
    ELSE IF stage = "process" THEN "audioAnalysisResult"
    ELSE "resultsSaved"

C13_MissingFieldFailsAtOnce ==
    [][\A e \in Execs :
          (/\ exec[e].stage \in Stages
           /\ exec[e].pc \notin {"idle", "returned", "succeeded", "failed"}
           /\ \E k \in Required(exec[e].stage) :
                 Get(exec[e].event, k) \in {None, ""})
            => /\ {r \in table' : r.dataType = "audio-analysis-result"}
                    = {r \in table : r.dataType = "audio-analysis-result"}
               /\ exec'[e].called = {}
               /\ exec'[e].pc = "returned"
                     => Get(exec'[e].out, "success") = "false"]_vars

\* save_handler returned for a payload without audioAnalysisResult
C13_Witness ==
    \E e \in Execs :
        /\ exec[e].pc = "returned"
        /\ exec[e].stage = "save"
        /\ "audioAnalysisResult" \notin DOMAIN exec[e].event

\* the pcs at which a handler is inside update_analysis_progress or
\* delete_analysis_progress_flag
ExecSidePcs == {"upd_query", "upd_put", "del_query", "del_items"}

\* C14: a step of a side-channel operation, failing or not, leaves the
\* outcome of the handler as it was decided: update_analysis_progress and
\* delete_analysis_progress_flag keep the payload the handler is to return
\* and go on where the handler goes on; start_handler returns its success
\* payload when the put of the start flag failed, process_handler its
\* analysis when the clean-up of the Transcribe job failed;
\* get_reference_check goes on to the scenario whatever the put of the flag
\* did and answers what it had decided whatever the deletion of the flag did.
C14_SideChannelNeverDecides ==
    [][/\ \A e \in Execs :
            /\ exec[e].pc \in ExecSidePcs
                 => /\ exec'[e].out = exec[e].out
                    /\ exec'[e].pc \in ExecSidePcs
                          \/ exec'[e].pc = (IF exec[e].pc \in {"del_query",
                                                               "del_items"}
                                               \/ exec[e].then = "return"
                                            THEN "returned"
                                            ELSE exec[e].then)
            /\ (exec[e].pc = "start" /\ exec'[e].side)
                 => exec'[e].out = StartOutput(exec[e].event, e)
            /\ (exec[e].pc = "run" /\ ~exec[e].side /\ exec'[e].side)
                 => /\ exec'[e].pc = "returned"
                    /\ Get(exec'[e].out, "success") # "false"
                    /\ "audioAnalysisResult" \in DOMAIN exec'[e].out
       /\ \A p \in RefProcs :
            /\ ref[p].pc = "set_flag" => ref'[p].pc = "get_scenario"
            /\ (ref[p].pc \in {"del_query", "del_items"}
                    /\ ref'[p].pc = "done")
                 => IF ref[p].after = "finish"
                    THEN /\ ref'[p].response.statusCode = 200
                         /\ ref'[p].response.body.messages = ref[p].results
                    ELSE ref'[p].response.statusCode = 500]_vars

\* check_handler returned the payload of a completed Transcribe job although
\* its update of the progress record failed
C14_Witness ==
    \E e \in Execs :
        /\ exec[e].pc = "returned"
        /\ exec[e].stage = "check"
        /\ exec[e].side
        /\ Get(exec[e].out, "jobStatus") = "COMPLETED"
        /\ Get(exec[e].out, "success") = "true"

\* C15: the body of every answer of an endpoint that is not a 200 has a
\* success flag and an error string, and every payload by which a stage
\* handler reports a failure (its except clause, a failed or missing
\* Transcribe job) has success = false, an error string and an errorType.
C15_FailureBodyShape ==
    /\ \A a \in ApiProcs :
          (api[a].pc = "done" /\ api[a].response.statusCode # 200)
            => /\ "success" \in api[a].response.keys
               /\ api[a].response.error # None
    /\ \A p \in RefProcs :
          (ref[p].pc = "done" /\ ref[p].response.statusCode \notin {200, 504})
            => /\ "success" \in ref[p].response.keys
               /\ ref[p].response.error # None
    /\ \A e \in Execs :
          (/\ exec[e].pc = "returned"
           /\ \/ Get(exec[e].out, "success") = "false"
              \/ Get(exec[e].out, "jobStatus") = "FAILED")
            => /\ Get(exec[e].out, "success") = "false"
               /\ Get(exec[e].out, "error") # None
               /\ Get(exec[e].out, "errorType") # None

\* the kind of outcome of a request: the exception its route raised, or the
\* conflict the guard answered; "none" for any other request
OutcomeKind(r) ==
    IF r.pc # "done" THEN "none"
    ELSE IF r.raised = "BadRequestError" THEN "validation"
    ELSE IF r.raised = "ResourceNotFoundError" THEN "not_found"
    ELSE IF r.raised # None THEN "internal"
    ELSE IF r.response.statusCode = 409 THEN "conflict"
    ELSE "none"

\* C16: two requests to an endpoint that ended with different kinds of
\* outcome among validation error, not found, conflict and internal error
\* were not answered with the same status code and the same error tag.
C16_OutcomesDistinguished ==
    /\ \A a, b \in ApiProcs :
          (/\ OutcomeKind(api[a]) # "none"
           /\ OutcomeKind(api[b]) # "none"
           /\ OutcomeKind(api[a]) # OutcomeKind(api[b]))
            => <<api[a].response.statusCode, api[a].response.error>>
                 # <<api[b].response.statusCode, api[b].response.error>>
    /\ \A p, q \in RefProcs :
          (/\ OutcomeKind(ref[p]) # "none"
           /\ OutcomeKind(ref[q]) # "none"
           /\ OutcomeKind(ref[p]) # OutcomeKind(ref[q]))
            => <<ref[p].response.statusCode, ref[p].response.error>>
                 # <<ref[q].response.statusCode, ref[q].response.error>>

\* the place of a step in the order START, TRANSCRIBING,
\* TRANSCRIBE_COMPLETED, ANALYZING; ERROR is past them all
StepRank(step) ==
    IF step = "START" THEN 0
    ELSE IF step = "TRANSCRIBING" THEN 1
    ELSE IF step = "TRANSCRIBE_COMPLETED" THEN 2
    ELSE IF step = "ANALYZING" THEN 3
    ELSE 4

\* C17: whenever a step rewrites an audio-analysis-in-progress record, its
\* currentStep does not move back in the order START, TRANSCRIBING,
\* TRANSCRIBE_COMPLETED, ANALYZING, ERROR, and a record whose currentStep
\* is ERROR keeps it.
C17_StepOnlyForward ==
    [][\A r \in table, q \in table' :
          (/\ r.dataType = "audio-analysis-in-progress"
           /\ q.dataType = "audio-analysis-in-progress"
           /\ q.createdAt = r.createdAt)
            => StepRank(q.currentStep) >= StepRank(r.currentStep)]_vars

\* C18: when get_reference_check, alone on the session, returned a result
\* it computed after setting its flag, the session has a reference-check
\* record and no reference-check-in-progress record; when save_handler,
\* alone on the session, returned success = true, the session has an
\* audio-analysis-result record and no audio-analysis-in-progress record.
C18_ResultWrittenMarkerGone ==
    /\ \A p \in RefProcs :
          (/\ ref[p].pc = "done"
           /\ ref[p].response.statusCode = 200
           /\ ref[p].decision = "PROCEED"
           /\ \A q \in RefProcs \ {p} : ref[q].pc = "idle")
            => /\ QueryDesc(table, "reference-check") # <<>>
               /\ QueryDesc(table, "reference-check-in-progress") = <<>>
    /\ \A e \in Execs :
          (/\ exec[e].pc = "returned"
           /\ exec[e].stage = "save"
           /\ Get(exec[e].out, "success") = "true"
           /\ \A f \in Execs \ {e} : exec[f].pc = "idle"
           /\ \A a \in ApiProcs : api[a].pc \in {"idle", "done"})
            => /\ QueryDesc(table, "audio-analysis-result") # <<>>
               /\ QueryDesc(table, "audio-analysis-in-progress") = <<>>

\* C19: the status in an answer of get_analysis_status is one of COMPLETED,
\* IN_PROGRESS, FAILED and NOT_STARTED, and it is FAILED when the
\* currentStep of the session's in-progress record is ERROR.
C19_StatusValues ==
    (/\ poll.pc = "done"
     /\ poll.route = "status"
     /\ poll.response.statusCode = 200)
        => /\ poll.response.status
                \in {"COMPLETED", "IN_PROGRESS", "FAILED", "NOT_STARTED"}
           /\ poll.response.currentStep = "ERROR"
                => poll.response.status = "FAILED"

\* C20: an invocation of get_reference_check that is past its guard and
\* alone on the session finds its reference-check-in-progress record in the
\* table from the scenario lookup to the save of the result, and after
\* start_audio_analysis answered STARTED, as long as no stage of the
\* execution has run, the session has an audio-analysis-in-progress record
\* that makes is_analysis_in_progress true (so that a second request is
\* answered 409).
C20_RecordBeforeWork ==
    /\ \A p \in RefProcs :
          (/\ ref[p].pc \in RefWorking \ {"set_flag"}
           /\ \A q \in RefProcs \ {p} : ref[q].pc = "idle")
            => QueryDesc(table, "reference-check-in-progress") # <<>>
    /\ \A a \in ApiProcs :
          (/\ api[a].pc = "done"
           /\ api[a].response.status = "STARTED"
           /\ \A e \in Execs : exec[e].pc \in {"idle", "start"})
            => is_analysis_in_progress(table, now)

\* C21: when a stage handler of the only execution of a session returned a
\* failure, and when get_reference_check, alone on the session, answered
\* with the 500 of a failure, the session has no in-progress record of that
\* kind.
C21_MarkerClearedOnError ==
    /\ \A e \in Execs :
          (/\ exec[e].pc = "returned"
           /\ Get(exec[e].out, "success") = "false"
           /\ \A f \in Execs \ {e} : exec[f].pc = "idle"
           /\ \A a \in ApiProcs : api[a].pc \in {"idle", "done"})
            => QueryDesc(table, "audio-analysis-in-progress") = <<>>
    /\ \A p \in RefProcs :
          (/\ ref[p].pc = "done"
           /\ ref[p].response.statusCode = 500
           /\ \A q \in RefProcs \ {p} : ref[q].pc = "idle")
            => QueryDesc(table, "reference-check-in-progress") = <<>>

\* C22: when a stage handler after the start stage, in the only execution
\* of the session, returned a failure, the session has an
\* audio-analysis-in-progress record whose currentStep is ERROR and which
\* carries the error message and the step that failed.
C22_ErrorRecordedBeforeReturn ==
    \A e \in Execs :
        (/\ exec[e].pc = "returned"
         /\ exec[e].stage \in {"transcribe", "check", "process", "save"}
         /\ Get(exec[e].out, "success") = "false"
         /\ \A f \in Execs \ {e} : exec[f].pc = "idle"
         /\ \A a \in ApiProcs : api[a].pc \in {"idle", "done"})
          => \E r \in table :
                /\ r.dataType = "audio-analysis-in-progress"
                /\ r.currentStep = "ERROR"
                /\ r.error # None
                /\ r.step # None

\* C23: when update_analysis_progress runs its query while the session has
\* at least one audio-analysis-in-progress record, it finds the most
\* recently created of them and goes on to put it back.
C23_UpdateFindsNewest ==
    [][\A e \in Execs :
          (/\ exec[e].pc = "upd_query"
           /\ exec'[e] # exec[e]
           /\ QueryDesc(table, "audio-analysis-in-progress") # <<>>)
            => /\ exec'[e].pc = "upd_put"
               /\ exec'[e].found
                     = {QueryDesc(table, "audio-analysis-in-progress")[1]}]_vars

\* the sum of a sequence of numbers
RECURSIVE SumSeq(_)
SumSeq(q) == IF q = <<>> THEN 0 ELSE Head(q) + SumSeq(Tail(q))

\* C24: within one call of _identify_speaker_roles_with_agent the delay
\* slept before retry i+1 (i = 0, 1, ...) is between 2 * 2^i and
\* 2 * 2^i + 1 seconds, the delays do not decrease, and their sum is at most
\* 2 * (2^(max_retries-1) - 1) + (max_retries - 1) seconds (times are in
\* milliseconds).
C24_BackoffDelays ==
    LET sleeps == retry.sleeps
    IN  /\ \A k \in 1..Len(sleeps) :
              /\ sleeps[k] >= 2000 * 2 ^ (k - 1)
              /\ sleeps[k] <= 2000 * 2 ^ (k - 1) + 1000
        /\ \A k \in 1..(Len(sleeps) - 1) : sleeps[k] <= sleeps[k + 1]
        /\ SumSeq(sleeps)
              <= 1000 * (2 * (2 ^ (max_retries - 1) - 1) + (max_retries - 1))

\* a call that slept before each of its four retries, each time with the
\* largest jitter: 34 seconds in all
C24_Witness ==
    /\ Len(retry.sleeps) = 4
    /\ SumSeq(retry.sleeps) = 34000

\* C25: a staleness check that meets an in-progress record whose createdAt
\* is missing or does not parse answers "in progress": the request ends
\* with 409 and the table is left as it is, whatever the clock shows.
C25_UnparsedMeansInProgress ==
    [][/\ \A p \in RefProcs :
            (/\ ref[p].pc = "check_progress"
             /\ ref'[p] # ref[p]
             /\ \E r \in table :
                   /\ r.dataType = "reference-check-in-progress"
                   /\ r.createdAtText # "iso")
              => /\ ref'[p].pc = "done"
                 /\ ref'[p].response.statusCode = 409
                 /\ table' = table
       /\ \A a \in ApiProcs :
            (/\ api[a].pc = "check_progress"
             /\ api'[a] # api[a]
             /\ \E r \in table :
                   /\ r.dataType = "audio-analysis-in-progress"
                   /\ r.createdAtText # "iso")
              => /\ api'[a].pc = "done"
                 /\ api'[a].response.statusCode = 409
                 /\ table' = table
                 /\ exec' = exec]_vars

\* a request for the audio analysis was answered 409 because of a record
\* without a readable createdAt, more than three hours after the record's
\* place in the partition
C25_Witness ==
    \E a \in ApiProcs :
        /\ api[a].pc = "done"
        /\ api[a].response.statusCode = 409
        /\ \E r \in table :
              /\ r.dataType = "audio-analysis-in-progress"
              /\ r.createdAtText = "garbled"
              /\ now - r.createdAt > AUDIO_STALE_SECONDS

\* an invocation of get_reference_check that has set its flag and has not
\* turned to its error path
RefMarkerWritten(p) ==
    \/ ref[p].pc \in {"get_scenario", "get_messages", "save_empty", "agent",
                      "save"}
    \/ ref[p].pc \in {"del_query", "del_items"} /\ ref[p].after = "finish"

\* an execution past start_handler whose stage has not reported a failure
ExecMarkerWritten(e) ==
    /\ exec[e].stage \in {"transcribe", "check", "process", "save"}
    /\ exec[e].pc \notin {"idle", "succeeded", "failed"}
    /\ Get(exec[e].out, "success") # "false"
    /\ exec[e].upd.failed = None

\* C26: while an invocation that wrote its marker is on its way to a
\* successful completion, the partition holds an in-progress record or a
\* result record of its kind: a new caller of the guard never finds neither.
C26_NeverNeither ==
    /\ \A p \in RefProcs : RefMarkerWritten(p) => ~Clean(table)
    /\ \A e \in Execs : ExecMarkerWritten(e) => ~AudioClean(table)

\* the invocations of get_reference_check that have put their flag and
\* have not come to clear it
StillRunning ==
    {p \in RefProcs : ref[p].pc \in RefWorking \ {"set_flag"}
                        \/ ref[p].pc = "save_empty"}

\* the executions whose start_handler has put the in-progress item and
\* whose save_handler has not come to clear it
ExecStillRunning ==
    {e \in Execs : \/ exec[e].stage \in {"transcribe", "check", "process"}
                   \/ exec[e].stage = "save" /\ exec[e].pc = "save"}

\* the in-progress records that leave the table in a step
DeletedMarkers ==
    {r \in table \ table' : r.dataType \in InProgressTypes}

\* the in-progress items of the audio analysis that executions of this run
\* have put: the clock starts at 2
RunMarkers(t) ==
    {r \in t : r.dataType = "audio-analysis-in-progress" /\ r.createdAt >= 2}

\* C27: a delete_item of delete_reference_check_progress_flag or of
\* delete_analysis_progress_flag never removes the in-progress record that
\* a different invocation, still running, wrote less than the staleness
\* threshold ago.  For the reference check the record is the one the other
\* invocation has put.  For the audio analysis, where only the deleting
\* execution and one other exist and each has put one item: while every
\* item of the run is younger than the threshold and the other execution
\* runs, the deleting execution does not remove the last item of the run.
C27_ForeignFreshMarkerKept ==
    [][/\ \A p \in RefProcs :
            (ref[p].pc = "del_items" /\ ref'[p] # ref[p])
              => \A r \in DeletedMarkers :
                    ~(/\ \E q \in StillRunning \ {p} :
                            ref[q].wrote = r.createdAt
                      /\ now - r.createdAt <= REF_STALE_SECONDS)
       /\ \A e \in Execs :
            (/\ exec[e].pc = "del_items"
             /\ exec'[e] # exec[e]
             /\ DeletedMarkers # {}
             /\ ExecStillRunning \ {e} # {}
             /\ now - 2 <= AUDIO_STALE_SECONDS)
              => RunMarkers(table') # {}]_vars

\* the in-progress records of the audio analysis in the partition
AudioMarkers(t) == {r \in t : r.dataType = "audio-analysis-in-progress"}

\* C28: only delete_analysis_progress_flag of save_handler removes the
\* in-progress records of the session; once the partition is left without
\* one, a record appears again only by the put of a start_handler, never
\* by the put of an update_analysis_progress that had queried before the
\* deletion.
C28_DeletedMarkerStaysDeleted ==
    [][(AudioMarkers(table) = {} /\ AudioMarkers(table') # {})
          => \E e \in Execs : exec[e].pc = "start" /\ exec'[e] # exec[e]]_vars

\* the keys of a response whose values are taken from a record
RecordFields == {"audioAnalysis", "scenarioId", "currentStep", "progress"}

\* C29: get_analysis_status and get_analysis_results answer with fields of
\* a result or progress record only to the caller whose user id is the
\* record's userId; a caller who meets the record of another user gets the
\* not-found error (or, when the query itself failed, the answer of a
\* session without records), never a field of the record.
C29_OnlyOwnerReadsRecord ==
    [][(poll.pc \in {"result_query", "progress_query"} /\ poll'.pc = "done")
          => LET result == get_existing_analysis_result(table)
                 progress_data == get_analysis_progress(table, now)
                 keys == poll'.response.keys \cap RecordFields
             IN  /\ keys \cap {"audioAnalysis", "scenarioId"} # {}
                     => /\ result # <<>>
                        /\ result[1].userId = poll.user
                 /\ keys \cap {"currentStep", "progress"} # {}
                     => /\ progress_data # {}
                        /\ \A r \in progress_data : r.userId = poll.user
                 /\ (/\ poll.pc = "result_query"
                     /\ result # <<>>
                     /\ result[1].userId # poll.user)
                     => /\ keys = {}
                        /\ poll'.raised = "ResourceNotFoundError"
                 /\ (/\ poll.pc = "progress_query"
                     /\ \E r \in progress_data : r.userId # poll.user)
                     => /\ keys = {}
                        /\ \/ poll'.raised = "ResourceNotFoundError"
                           \/ poll'.response.status = "NOT_STARTED"]_vars

\* a caller who is not the owner asked for the results of a session that
\* has a result record and was refused
C29_Witness ==
    /\ poll.pc = "done"
    /\ poll.route = "results"
    /\ poll.raised = "ResourceNotFoundError"
    /\ LET result == get_existing_analysis_result(table)
       IN  result # <<>> /\ result[1].userId # poll.user

\* C30: the owner's call of GET /sessions/<session_id>/analysis-results for
\* a session that has an audio-analysis-result record is classified as an
\* audio-analysis session, at the first call and at every later one: when
\* the stores and the feedback generation answer, the call ends with the
\* response of handle_audio_analysis_session.
C30_AlwaysAudioSession ==
    (/\ poll.pc = "done"
     /\ poll.route = "analysis-results"
     /\ ~faults
     /\ \E r \in table : /\ r.dataType = "audio-analysis-result"
                         /\ r.userId = poll.user)
        => /\ poll.response.statusCode = 200
           /\ poll.response.keys = AudioSessionKeys

=============================================================================
